---- MODULE Spec2Model ----
(***************************************************************************)
(* Model of the order / stock logic of Ecommerce-api-express-mongodb.js.   *)
(*                                                                         *)
(* The database (products, orders) is the shared state.  Every HTTP        *)
(* handler is a process whose steps are its database operations: the code  *)
(* between two awaits only touches the handler's locals, so it is folded   *)
(* into the database operation that precedes it.  The updateOne operations *)
(* that reduceStock / restoreStock hand to Promise.all are issued together *)
(* and are applied by the database one at a time in any order, interleaved *)
(* with the operations of the other handlers.                              *)
(***************************************************************************)
EXTENDS Integers, Sequences, FiniteSets, TLC

\* ------------------------------------------------------------ bounds ----
NumProcs == 2        \* handlers that can be in flight at the same time
MaxRequests == 3     \* requests served in one behaviour
MaxQty == 3          \* largest quantity a request names

Procs == 1..NumProcs
ProductIds == {1, 2, 3}          \* 3 is the id of no product until it is created
InitProducts == {1, 2}
InitStock == <<5, 2, 0>>
InitPrice == <<10, 3, 0>>
Quantities == (0 - 1)..MaxQty    \* the body is not validated: 0 and -1 can be sent
OrderIds == 1..MaxRequests       \* orders are numbered 1, 2, ... as they are created

\* customer_id as sent: "" absent (falsy), "42" a number, "abc" a string that is no number
NewAddresses == {"addr1"}        \* shipping_address of POST /v1/orders
PutAddresses == {"", "addr2"}    \* shipping_address of PUT /v1/orders/:id

\* ------------------------------------------------------- order status ----
Statuses == {"pending", "confirmed", "shipped", "out_for_delivery", "delivered", "cancelled"}
\* status of a PUT body: absent, a member of the enum, or any other string
PutStatuses == Statuses \cup {"", "returned"}

\* ---------------------------------------------------------- responses ----
ErrRequired == "customer_id and items are required"
ErrProductsNotFound == "One or more products not found"
ErrProductNotFound == "Product not found"
ErrInsufficient == "Insufficient stock for product"
ErrReserve == "Failed to reserve stock for product"
ErrValidation == "validation failed"
ErrOrderNotFound == "Order not found"
ErrCannotCancel == "Cannot cancel an order already shipped or delivered"
ErrCannotDelete == "Cannot delete an order already shipped/delivered"
ErrAddress == "Cannot change address after shipping"
ErrNoFields == "No actionable fields provided"

Response(code, error, id) == [status |-> code, error |-> error, order_id |-> id]
NoResponse == Response(0, "", 0)

\* stock of the sample products of the seed route, lines 270-276
SampleStock == <<10, 30, 50, 100, 200>>

VARIABLES
    gone,       \* ids of the Product documents that were deleted
    samples,    \* number of Product documents made by the seed route
    exists,     \* ids of the Product documents
    stock,      \* Product.stock, by id
    price,      \* Product.price, by id
    orders,     \* the Order documents, in creation order; the index is the _id
    pc,         \* where each handler stands
    req,        \* the request a handler serves
    loc,        \* the handler's local variables
    resp,       \* the response it sent
    delta,      \* net change the handler's request has made to each stock so far
    nreq,       \* requests started
    reserved,   \* per product, total quantity of the reduceStock calls that returned
    releases    \* per order id, restoreStock calls that ran to their end

vars == <<gone, samples, exists, stock, price, orders, pc, req, loc, resp, delta, nreq, reserved, releases>>

\* ----------------------------------------------------------- requests ----
OpPostOrders == "POST /v1/orders"
OpPutOrder == "PUT /v1/orders/:id"
OpDeleteOrder == "DELETE /v1/orders/:id"
OpPostProducts == "POST /v1/products"
OpSeed == "POST /v1/seed"

Item(pid, q) == [productId |-> pid, quantity |-> q]
Items == {Item(pid, q) : pid \in ProductIds, q \in Quantities}
\* the item lists a body can carry: every list of one item, and the lists of two
\* items that name two products, a product twice, a product that does not exist
\* beside one that does, and a negative quantity beside a positive one
ItemLists ==
    {<<it>> : it \in Items}
    \cup {<<Item(1, MaxQty), Item(2, MaxQty - 1)>>,
          <<Item(1, MaxQty - 1), Item(1, MaxQty - 1)>>,
          <<Item(3, MaxQty - 1), Item(1, MaxQty)>>,
          <<Item(2, 0 - 1), Item(1, MaxQty)>>}

\* the bodies of POST /v1/orders: each item list with a numeric customer_id, and
\* bodies whose customer_id is no number, is absent, or whose items are empty
PostBodies ==
    {[customer_id |-> "42", items |-> l] : l \in ItemLists}
    \cup {[customer_id |-> "abc", items |-> <<Item(1, MaxQty)>>],
          [customer_id |-> "", items |-> <<Item(1, MaxQty)>>],
          [customer_id |-> "42", items |-> <<>>]}

Request(op, cust, items, addr, id, status, pr, st) ==
    [op |-> op, customer_id |-> cust, items |-> items, shipping_address |-> addr,
     id |-> id, status |-> status, price |-> pr, stock |-> st]
NoRequest == Request("", "", <<>>, "", 0, "", 0, 0)

NoLocals ==
    [enriched |-> <<>>, total |-> 0, pending |-> {}, res |-> <<>>,
     readStatus |-> "", status |-> "", readAddress |-> "", shippingAddress |-> ""]

ZeroDelta == [p \in ProductIds |-> 0]

\* result of an updateOne
UpdateResult(matched, modified) == [matchedCount |-> matched, modifiedCount |-> modified]

\* ------------------------------------------------------------ helpers ----
RECURSIVE SumOver(_, _)
\* sum of f[i] for i in S
SumOver(f, S) ==
    IF S = {} THEN 0
    ELSE LET i == CHOOSE x \in S : TRUE IN f[i] + SumOver(f, S \ {i})

\* faulty variant: the ids listed are taken for documents without looking them up
FindProductsUnchecked(productIds) ==
    {p \in ProductIds : \E i \in DOMAIN productIds : productIds[i] = p}

\* Product.find({ _id: { $in: productIds } }): the documents whose id is listed
FindProducts(productIds) == {p \in exists : \E i \in DOMAIN productIds : productIds[i] = p}

\* line 75: the number of documents found against the number of ids asked for
ProductsMissing(products, productIds) == Cardinality(products) # Len(productIds)

\* line 83: the check of one item against the product read
StockTooLow(pid, quantity) == stock[pid] < quantity

\* items.map callback, lines 80-86: the first item that throws, 0 when none does
FirstThrow(items, products) ==
    LET bad == {i \in DOMAIN items :
                   \/ items[i].productId \notin products
                   \/ StockTooLow(items[i].productId, items[i].quantity)}
    IN IF bad = {} THEN 0 ELSE CHOOSE i \in bad : \A j \in bad : i <= j

\* faulty variant: the total adds up the unit prices, without the quantities
calculateTotalOfUnitPrices(items) ==
    LET productIds == [i \in DOMAIN items |-> items[i].productId]
        products == FindProducts(productIds)
        k == FirstThrow(items, products)
        enriched == [i \in DOMAIN items |->
                        [product |-> items[i].productId,
                         quantity |-> items[i].quantity,
                         priceAtPurchase |-> price[items[i].productId]]]
        total == SumOver([i \in DOMAIN items |-> price[items[i].productId]], DOMAIN items)
    IN IF ProductsMissing(products, productIds)
       THEN [error |-> ErrProductsNotFound, total |-> 0, enriched |-> <<>>]
       ELSE IF k # 0 /\ items[k].productId \notin products
       THEN [error |-> ErrProductNotFound, total |-> 0, enriched |-> <<>>]
       ELSE IF k # 0
       THEN [error |-> ErrInsufficient, total |-> 0, enriched |-> <<>>]
       ELSE [error |-> "", total |-> total, enriched |-> enriched]

calculateTotalAndCheckStock(items) ==
    LET productIds == [i \in DOMAIN items |-> items[i].productId]
        products == FindProducts(productIds)
        k == FirstThrow(items, products)
        enriched == [i \in DOMAIN items |->
                        [product |-> items[i].productId,
                         quantity |-> items[i].quantity,
                         priceAtPurchase |-> price[items[i].productId]]]
        total == SumOver([i \in DOMAIN items |-> price[items[i].productId] * items[i].quantity],
                         DOMAIN items)
    IN IF ProductsMissing(products, productIds)
       THEN [error |-> ErrProductsNotFound, total |-> 0, enriched |-> <<>>]
       ELSE IF k # 0 /\ items[k].productId \notin products
       THEN [error |-> ErrProductNotFound, total |-> 0, enriched |-> <<>>]
       ELSE IF k # 0
       THEN [error |-> ErrInsufficient, total |-> 0, enriched |-> <<>>]
       ELSE [error |-> "", total |-> total, enriched |-> enriched]

\* faulty variant: the filter asks for some stock, not for enough: { stock: { $gt: 0 } }
ReduceFilterAnyStock(pid, quantity) == pid \in exists /\ stock[pid] > 0

\* faulty variant: the filter is the id alone
ReduceFilterIdOnly(pid, quantity) == pid \in exists

\* the filter of reduceStock's updateOne, line 94: { _id, stock: { $gte: quantity } }
ReduceFilter(pid, quantity) == pid \in exists /\ stock[pid] >= quantity

\* faulty variant: the update takes one unit whatever the quantity
ReduceUpdateByOne(s, quantity) == s - 1

\* the update of reduceStock's updateOne, line 94: { $inc: { stock: -quantity } }
ReduceUpdate(s, quantity) == s - quantity

\* faulty variant: the test reads matchedCount !== 0
UpdateFailedInverted(r) == r.modifiedCount = 0 /\ r.matchedCount # 0

\* line 99: the test that an update failed
UpdateFailed(r) == r.modifiedCount = 0 /\ r.matchedCount = 0

\* faulty variant: the update is an upsert, it applies whether or not the id matches
RestoreFilterUpsert(pid) == TRUE

\* the filter of restoreStock's updateOne, line 107: { _id }
RestoreFilter(pid) == pid \in exists

\* faulty variant: the update gives back one unit whatever the quantity
RestoreUpdateByOne(s, quantity) == s + 1

\* the update of restoreStock's updateOne, line 107: { $inc: { stock: quantity } }
RestoreUpdate(s, quantity) == s + quantity

\* faulty variant: out_for_delivery is left out of the list
ShippedOrLaterNoTransit(status) == status \in {"shipped", "delivered"}

\* lines 208, 222, 248
ShippedOrLater(status) == status \in {"shipped", "out_for_delivery", "delivered"}

\* OrderItemSchema, OrderSchema: what order.save() validates of a new order
ValidNewOrder(order) ==
    /\ order.customerId = "42"
    /\ \A i \in DOMAIN order.items :
          order.items[i].quantity >= 1 /\ order.items[i].priceAtPurchase >= 0
    /\ order.totalAmount >= 0
    /\ order.status \in Statuses

\* ProductSchema: what p.save() validates
ValidProduct(pr, st) == pr >= 0 /\ st >= 0

\* a handler ends: it has sent `r`
Ends(self, r) ==
    /\ pc' = [pc EXCEPT ![self] = "done"]
    /\ resp' = [resp EXCEPT ![self] = r]

\* the change a step made to the stocks, added to the account of the handler's request
Accounted(self) ==
    delta' = [delta EXCEPT ![self] = [p \in ProductIds |-> delta[self][p] + stock'[p] - stock[p]]]

\* ---------------------------------------------------------------- Init ----
Init ==
    /\ gone = {}
    /\ samples = 0
    /\ exists = InitProducts
    /\ stock = [p \in ProductIds |-> InitStock[p]]
    /\ price = [p \in ProductIds |-> InitPrice[p]]
    /\ orders = <<>>
    /\ pc = [self \in Procs |-> "idle"]
    /\ req = [self \in Procs |-> NoRequest]
    /\ loc = [self \in Procs |-> NoLocals]
    /\ resp = [self \in Procs |-> NoResponse]
    /\ delta = [self \in Procs |-> ZeroDelta]
    /\ nreq = 0
    /\ reserved = [p \in ProductIds |-> 0]
    /\ releases = [o \in OrderIds |-> 0]

\* a request arrives and a handler is invoked for it.  Invocations are
\* interchangeable, so the first idle one takes it
Arrives(self, r) ==
    /\ pc[self] = "idle"
    /\ \A other \in Procs : other < self => pc[other] # "idle"
    /\ nreq < MaxRequests
    /\ nreq' = nreq + 1
    /\ req' = [req EXCEPT ![self] = r]

\* ----------------------------------------------------- POST /v1/orders ----
\* lines 145-156: the body is checked, the products are read, and
\* calculateTotalAndCheckStock runs on what was read; on success the updates of
\* reduceStock are issued (lines 93-96).  The read is one query and is taken as
\* one step; nothing is held between it and the updates
PostOrdersFind(self) ==
    \E body \in PostBodies, addr \in NewAddresses :
        LET cust == body.customer_id
            items == body.items
            checked == calculateTotalAndCheckStock(items)
        IN
        /\ Arrives(self, Request(OpPostOrders, cust, items, addr, 0, "", 0, 0))
        /\ IF cust = "" \/ Len(items) = 0
           THEN Ends(self, Response(400, ErrRequired, 0)) /\ UNCHANGED loc
           ELSE IF checked.error # ""
           THEN Ends(self, Response(400, checked.error, 0)) /\ UNCHANGED loc
           ELSE /\ pc' = [pc EXCEPT ![self] = "reduceStock"]
                /\ loc' = [loc EXCEPT ![self] =
                              [NoLocals EXCEPT !.enriched = checked.enriched,
                                               !.total = checked.total,
                                               !.pending = DOMAIN items,
                                               !.res = [i \in DOMAIN items |-> UpdateResult(0, 0)]]]
                /\ UNCHANGED resp
        /\ UNCHANGED <<gone, samples, exists, stock, price, orders, delta, reserved, releases>>

\* the database applies one of the updateOne operations of reduceStock (line 94);
\* when it was the last one, Promise.all resolves and lines 98-102 look at the
\* results: a failed update throws, with nothing undone (line 175)
ReduceStockUpdate(self) ==
    /\ pc[self] = "reduceStock"
    /\ \E i \in loc[self].pending :
        LET it == loc[self].enriched[i]
            matched == ReduceFilter(it.product, it.quantity)
            result == UpdateResult(IF matched THEN 1 ELSE 0,
                                   IF matched /\ it.quantity # 0 THEN 1 ELSE 0)
            res == [loc[self].res EXCEPT ![i] = result]
            pending == loc[self].pending \ {i}
            failed == \E j \in DOMAIN res : UpdateFailed(res[j])
        IN
        /\ stock' = IF matched
                    THEN [stock EXCEPT ![it.product] = ReduceUpdate(@, it.quantity)]
                    ELSE stock
        /\ loc' = [loc EXCEPT ![self].pending = pending, ![self].res = res]
        /\ IF pending # {}
           THEN UNCHANGED <<pc, resp, reserved>>
           ELSE IF failed
           THEN Ends(self, Response(500, ErrReserve, 0)) /\ UNCHANGED reserved
           ELSE /\ pc' = [pc EXCEPT ![self] = "saveOrder"]
                /\ reserved' = [p \in ProductIds |->
                                   reserved[p] + SumOver([j \in DOMAIN res |->
                                       IF loc[self].enriched[j].product = p
                                       THEN loc[self].enriched[j].quantity ELSE 0], DOMAIN res)]
                /\ UNCHANGED resp
    /\ Accounted(self)
    /\ UNCHANGED <<gone, samples, exists, price, orders, req, nreq, releases>>

\* faulty variant: the status is left to the schema default, 'pending'
NewOrderPending(self) ==
    [customerId |-> req[self].customer_id,
     items |-> [i \in DOMAIN loc[self].enriched |->
                   [product |-> loc[self].enriched[i].product,
                    quantity |-> loc[self].enriched[i].quantity,
                    priceAtPurchase |-> loc[self].enriched[i].priceAtPurchase]],
     totalAmount |-> loc[self].total,
     shippingAddress |-> req[self].shipping_address,
     status |-> "pending"]

\* lines 162-173: the order document is built, validated and inserted
NewOrder(self) ==
    [customerId |-> req[self].customer_id,
     items |-> [i \in DOMAIN loc[self].enriched |->
                   [product |-> loc[self].enriched[i].product,
                    quantity |-> loc[self].enriched[i].quantity,
                    priceAtPurchase |-> loc[self].enriched[i].priceAtPurchase]],
     totalAmount |-> loc[self].total,
     shippingAddress |-> req[self].shipping_address,
     status |-> "confirmed"]

PostOrdersSave(self) ==
    /\ pc[self] = "saveOrder"
    /\ IF ValidNewOrder(NewOrder(self))
       THEN /\ orders' = Append(orders, NewOrder(self))
            /\ Ends(self, Response(201, "", Len(orders) + 1))
       ELSE /\ Ends(self, Response(500, ErrValidation, 0))
            /\ UNCHANGED orders
    /\ UNCHANGED <<gone, samples, exists, stock, price, req, loc, delta, nreq, reserved, releases>>

\* ------------------------------------------------- PUT /v1/orders/:id ----
\* the fields of the document read by Order.findById that the handler uses
ReadOrder(id) ==
    [NoLocals EXCEPT !.enriched = [i \in DOMAIN orders[id].items |->
                                      [product |-> orders[id].items[i].product,
                                       quantity |-> orders[id].items[i].quantity,
                                       priceAtPurchase |-> orders[id].items[i].priceAtPurchase]],
                     !.total = orders[id].totalAmount,
                     !.readStatus = orders[id].status,
                     !.status = orders[id].status,
                     !.readAddress = orders[id].shippingAddress,
                     !.shippingAddress = orders[id].shippingAddress]

\* lines 212-213, 250-251: the updates of restoreStock are issued
StartsRestore(self, id) ==
    /\ pc' = [pc EXCEPT ![self] = "restoreStock"]
    /\ loc' = [loc EXCEPT ![self] =
                  [ReadOrder(id) EXCEPT !.pending = DOMAIN orders[id].items,
                                        !.res = [i \in DOMAIN orders[id].items |->
                                                    UpdateResult(0, 0)]]]
    /\ UNCHANGED resp

\* lines 200-239: the order is read and the body decides the branch
PutOrderFind(self) ==
    \E id \in 1..(Len(orders) + 1), status \in PutStatuses, addr \in PutAddresses :
        /\ Arrives(self, Request(OpPutOrder, "", <<>>, addr, id, status, 0, 0))
        /\ IF id \notin DOMAIN orders
           THEN Ends(self, Response(404, ErrOrderNotFound, 0)) /\ UNCHANGED loc
           ELSE IF status = "cancelled"
           THEN IF ShippedOrLater(orders[id].status)
                THEN Ends(self, Response(400, ErrCannotCancel, 0)) /\ UNCHANGED loc
                ELSE StartsRestore(self, id)
           ELSE IF addr # ""
           THEN IF ShippedOrLater(orders[id].status)
                THEN Ends(self, Response(400, ErrAddress, 0)) /\ UNCHANGED loc
                ELSE /\ pc' = [pc EXCEPT ![self] = "saveDoc"]
                     /\ loc' = [loc EXCEPT ![self] = [ReadOrder(id) EXCEPT !.shippingAddress = addr]]
                     /\ UNCHANGED resp
           ELSE IF status # ""
           THEN /\ pc' = [pc EXCEPT ![self] = "saveDoc"]
                /\ loc' = [loc EXCEPT ![self] = [ReadOrder(id) EXCEPT !.status = status]]
                /\ UNCHANGED resp
           ELSE Ends(self, Response(400, ErrNoFields, 0)) /\ UNCHANGED loc
        /\ UNCHANGED <<gone, samples, exists, stock, price, orders, delta, reserved, releases>>

\* ---------------------------------------------- DELETE /v1/orders/:id ----
\* lines 244-251
DeleteOrderFind(self) ==
    \E id \in 1..(Len(orders) + 1) :
        /\ Arrives(self, Request(OpDeleteOrder, "", <<>>, "", id, "", 0, 0))
        /\ IF id \notin DOMAIN orders
           THEN Ends(self, Response(404, ErrOrderNotFound, 0)) /\ UNCHANGED loc
           ELSE IF ShippedOrLater(orders[id].status)
           THEN Ends(self, Response(400, ErrCannotDelete, 0)) /\ UNCHANGED loc
           ELSE StartsRestore(self, id)
        /\ UNCHANGED <<gone, samples, exists, stock, price, orders, delta, reserved, releases>>

\* the database applies one of the updateOne operations of restoreStock (line 107):
\* no condition but the id, and an update that matches no document is no error
\* (line 109 does not look at the results); when it was the last one, lines 214
\* and 252 set the status of the document held by the handler
RestoreStockUpdate(self) ==
    /\ pc[self] = "restoreStock"
    /\ \E i \in loc[self].pending :
        LET it == loc[self].enriched[i]
            matched == RestoreFilter(it.product)
            result == UpdateResult(IF matched THEN 1 ELSE 0,
                                   IF matched /\ it.quantity # 0 THEN 1 ELSE 0)
            res == [loc[self].res EXCEPT ![i] = result]
            pending == loc[self].pending \ {i}
        IN
        /\ stock' = IF matched
                    THEN [stock EXCEPT ![it.product] = RestoreUpdate(@, it.quantity)]
                    ELSE stock
        /\ IF pending # {}
           THEN /\ loc' = [loc EXCEPT ![self].pending = pending, ![self].res = res]
                /\ UNCHANGED <<pc, releases>>
           ELSE /\ loc' = [loc EXCEPT ![self].pending = pending, ![self].res = res,
                                      ![self].status = "cancelled"]
                /\ pc' = [pc EXCEPT ![self] = "saveDoc"]
                /\ releases' = [releases EXCEPT ![req[self].id] = @ + 1]
    /\ Accounted(self)
    /\ UNCHANGED <<gone, samples, exists, price, orders, req, resp, nreq, reserved>>

\* faulty variant: save() writes every path of the document the handler holds
SavedDocWhole(old, l) ==
    [old EXCEPT !.status = l.status, !.shippingAddress = l.shippingAddress]

\* order.save() of a document that was read, lines 216, 227, 235, 253: the paths
\* whose value differs from the value read are validated and written
SavedDoc(old, l) ==
    [old EXCEPT !.status = IF l.status # l.readStatus THEN l.status ELSE @,
                !.shippingAddress = IF l.shippingAddress # l.readAddress
                                    THEN l.shippingAddress ELSE @]

OrderDocSave(self) ==
    /\ pc[self] = "saveDoc"
    /\ IF loc[self].status \in Statuses
       THEN /\ orders' = [orders EXCEPT ![req[self].id] = SavedDoc(@, loc[self])]
            /\ Ends(self, Response(200, "", req[self].id))
       ELSE /\ Ends(self, Response(500, ErrValidation, 0))
            /\ UNCHANGED orders
    /\ UNCHANGED <<gone, samples, exists, stock, price, req, loc, delta, nreq, reserved, releases>>

\* ---------------------------------------------------- POST /v1/products ----
\* lines 134-141: the new document gets an id no document has or had (the
\* model has ids for as many products as ProductIds holds)
PostProducts(self) ==
    \E pr \in {0 - 1, 4}, st \in {0 - 1, 2} :
        /\ exists \cup gone # ProductIds
        /\ Arrives(self, Request(OpPostProducts, "", <<>>, "", 0, "", pr, st))
        /\ LET fresh == ProductIds \ (exists \cup gone)
               id == CHOOSE p \in fresh : \A q \in fresh : p <= q
           IN
           IF ValidProduct(pr, st)
           THEN /\ exists' = exists \cup {id}
                /\ stock' = [stock EXCEPT ![id] = st]
                /\ price' = [price EXCEPT ![id] = pr]
                /\ Ends(self, Response(201, "", 0))
           ELSE /\ Ends(self, Response(500, ErrValidation, 0))
                /\ UNCHANGED <<exists, stock, price>>
        /\ UNCHANGED <<gone, samples, orders, loc, delta, reserved, releases>>

\* -------------------------------------------------------- POST /v1/seed ----
\* line 277, Product.deleteMany({}): every Product document is deleted.  The
\* query is issued when the handler starts
SeedDeleteMany(self) ==
    /\ Arrives(self, Request(OpSeed, "", <<>>, "", 0, "", 0, 0))
    /\ gone' = gone \cup exists
    /\ exists' = {}
    /\ stock' = [p \in ProductIds |-> 0]
    /\ price' = [p \in ProductIds |-> 0]
    /\ samples' = 0
    /\ pc' = [pc EXCEPT ![self] = "insertMany"]
    /\ UNCHANGED <<orders, loc, resp, delta, reserved, releases>>

\* lines 278-279, Product.insertMany(sample): the sample products are made, under
\* ids no document has or had.  No request of the model names them: their
\* stocks stay those of SampleStock and only their number is kept
SeedInsertMany(self) ==
    /\ pc[self] = "insertMany"
    /\ samples' = samples + Len(SampleStock)
    /\ Ends(self, Response(200, "", 0))
    /\ UNCHANGED <<gone, exists, stock, price, orders, req, loc, delta, nreq, reserved, releases>>

\* the response has gone out; the handler serves the next request
Respond(self) ==
    /\ pc[self] = "done"
    /\ pc' = [pc EXCEPT ![self] = "idle"]
    /\ req' = [req EXCEPT ![self] = NoRequest]
    /\ loc' = [loc EXCEPT ![self] = NoLocals]
    /\ resp' = [resp EXCEPT ![self] = NoResponse]
    /\ delta' = [delta EXCEPT ![self] = ZeroDelta]
    /\ UNCHANGED <<gone, samples, exists, stock, price, orders, nreq, reserved, releases>>

Next ==
    \E self \in Procs :
        \/ PostOrdersFind(self)
        \/ ReduceStockUpdate(self)
        \/ PostOrdersSave(self)
        \/ PutOrderFind(self)
        \/ DeleteOrderFind(self)
        \/ RestoreStockUpdate(self)
        \/ OrderDocSave(self)
        \/ PostProducts(self)
        \/ SeedDeleteMany(self)
        \/ SeedInsertMany(self)
        \/ Respond(self)

Spec == Init /\ [][Next]_vars

\* ================================================================ claims ====
PostOrdersDone(self) == pc[self] = "done" /\ req[self].op = OpPostOrders

\* a body was accepted and calculateTotalAndCheckStock passed: reduceStock ran
Reserving(self) == PostOrdersDone(self) /\ loc[self].res # <<>>

CancelDone(self) ==
    /\ pc[self] = "done"
    /\ \/ req[self].op = OpDeleteOrder
       \/ req[self].op = OpPutOrder /\ req[self].status = "cancelled"

NoRelease ==
    /\ \A o \in OrderIds : releases[o] = 0
    /\ \A self \in Procs : pc[self] # "restoreStock"

\* C1: while nothing has been released, the quantities of a product over the
\* reduceStock calls that succeeded never add up to more than its initial stock.
NoOversell ==
    NoRelease => \A p \in InitProducts : reserved[p] <= InitStock[p]

\* C2: a createOrder that ends because a decrement was rejected has, when it
\* returns, undone every decrement it applied: its net effect on each stock is 0.
FailedReserveRestoresStock ==
    \A self \in Procs :
        (PostOrdersDone(self) /\ resp[self].error = ErrReserve) => delta[self] = ZeroDelta

\* C3: a cancel (PUT status=cancelled or DELETE) that read the status cancelled
\* fails with status 400 and changes no stock, and no order's quantities are
\* given back more than once.
SecondCancelRejected ==
    /\ \A self \in Procs :
          (CancelDone(self) /\ loc[self].readStatus = "cancelled")
              => (resp[self].status = 400 /\ delta[self] = ZeroDelta)
    /\ \A o \in OrderIds : releases[o] <= 1

\* C4: every stock is at least 0 in every state, and an update of reduceStock
\* that would take a stock below 0 is rejected and changes no stock.
StockNonNegative == \A p \in ProductIds : stock[p] >= 0

RejectedDecrementKeepsStock ==
    \A self \in Procs : \A i \in loc[self].pending :
        (/\ pc[self] = "reduceStock"
         /\ loc'[self].pending = loc[self].pending \ {i}
         /\ stock[loc[self].enriched[i].product] - loc[self].enriched[i].quantity < 0)
        => (stock' = stock /\ loc'[self].res[i].matchedCount = 0)

StockNeverNegative == []StockNonNegative /\ [][RejectedDecrementKeepsStock]_vars

\* a decrement was rejected: a createOrder ended on it
DecrementWasRejected ==
    \E self \in Procs : PostOrdersDone(self) /\ resp[self].error = ErrReserve

\* C5: product 1 has stock 5 and the only two requests are createOrder calls
\* for 3 units of it; when both have ended, exactly one has created an order,
\* of total 3 x price, the other has failed and created none, and the stock is 2.
RaceBody(self) ==
    /\ PostOrdersDone(self)
    /\ req[self].customer_id = "42"
    /\ req[self].items = <<Item(1, 3)>>

RaceEnded == nreq = 2 /\ InitStock[1] = 5 /\ RaceBody(1) /\ RaceBody(2)

ExactlyOneWinsRace ==
    RaceEnded =>
        /\ \E w \in {1, 2} :
              /\ resp[w] = Response(201, "", 1)
              /\ resp[3 - w].status \in {400, 500}
              /\ resp[3 - w].order_id = 0
        /\ Len(orders) = 1
        /\ orders[1].totalAmount = 3 * InitPrice[1]
        /\ orders[1].items = <<[product |-> 1, quantity |-> 3, priceAtPurchase |-> InitPrice[1]]>>
        /\ stock[1] = 2

\* the race was run with the two calls overlapping: the loser passed the stock
\* check and lost at its decrement
RaceLostAtDecrement ==
    RaceEnded /\ \E l \in {1, 2} : resp[l].error = ErrReserve

\* C6: an order document is added only by a createOrder call that has, for each
\* product, taken exactly the quantities of the order's items off the stock; a
\* createOrder call that ends in failure adds none.
QuantityOf(items, p) ==
    SumOver([i \in DOMAIN items |-> IF items[i].product = p THEN items[i].quantity ELSE 0],
            DOMAIN items)

OrderAddedAfterReserve ==
    /\ (orders' # orders /\ Len(orders') # Len(orders)) =>
          \E self \in Procs :
              /\ pc[self] = "saveOrder" /\ pc'[self] = "done"
              /\ resp'[self] = Response(201, "", Len(orders'))
              /\ Len(orders') = Len(orders) + 1
              /\ \A o \in DOMAIN orders : orders'[o] = orders[o]
              /\ LET new == orders'[Len(orders')] IN
                 /\ Len(new.items) = Len(req[self].items)
                 /\ \A i \in DOMAIN new.items :
                       /\ new.items[i].product = req[self].items[i].productId
                       /\ new.items[i].quantity = req[self].items[i].quantity
                 /\ \A p \in ProductIds : delta[self][p] = 0 - QuantityOf(new.items, p)
    /\ \A self \in Procs :
          (pc[self] # "done" /\ pc'[self] = "done" /\ req'[self].op = OpPostOrders
              /\ resp'[self].status # 201) => orders' = orders

OrderOnlyAfterReserve == [][OrderAddedAfterReserve]_vars

\* an order of two items was created
TwoItemOrderCreated ==
    \E self \in Procs :
        /\ PostOrdersDone(self) /\ resp[self].status = 201
        /\ Len(orders[resp[self].order_id].items) = 2

\* C7: no step changes the status of an order that is cancelled or delivered.
TerminalStatusKept ==
    \A o \in DOMAIN orders :
        orders[o].status \in {"cancelled", "delivered"} => orders'[o].status = orders[o].status

TerminalStatusesStay == [][TerminalStatusKept]_vars

\* C8: a cancel (PUT status=cancelled or DELETE) of an order whose status is
\* shipped, out_for_delivery or delivered ends at once with status 400 and the
\* message of its path, and changes no order and no stock.
CancelRefusedAfterShipping ==
    \A self \in Procs :
        (/\ pc[self] = "idle" /\ pc'[self] # "idle"
         /\ \/ req'[self].op = OpDeleteOrder
            \/ req'[self].op = OpPutOrder /\ req'[self].status = "cancelled"
         /\ req'[self].id \in DOMAIN orders
         /\ orders[req'[self].id].status \in {"shipped", "out_for_delivery", "delivered"})
        => /\ pc'[self] = "done"
           /\ resp'[self].status = 400
           /\ resp'[self].error = IF req'[self].op = OpPutOrder THEN ErrCannotCancel
                                                                  ELSE ErrCannotDelete
           /\ orders' = orders
           /\ stock' = stock

ShippedOrderNotCancelled == [][CancelRefusedAfterShipping]_vars

\* a PUT with status=cancelled was refused for an order out for delivery
CancelOfShippedRefused ==
    \E self \in Procs :
        /\ CancelDone(self) /\ req[self].op = OpPutOrder
        /\ resp[self] = Response(400, ErrCannotCancel, 0)
        /\ orders[req[self].id].status = "out_for_delivery"
        /\ delta[self] = ZeroDelta

\* C9: a createOrder whose items name a product that does not exist ends at
\* once with status 400 and a not-found message, adds no order and changes no
\* stock.
UnknownProductRefused ==
    \A self \in Procs :
        (/\ pc[self] = "idle" /\ pc'[self] # "idle"
         /\ req'[self].op = OpPostOrders
         /\ req'[self].customer_id # ""
         /\ \E i \in DOMAIN req'[self].items : req'[self].items[i].productId \notin exists)
        => /\ pc'[self] = "done"
           /\ resp'[self].status = 400
           /\ resp'[self].error \in {ErrProductsNotFound, ErrProductNotFound}
           /\ resp'[self].order_id = 0
           /\ orders' = orders
           /\ stock' = stock

UnknownProductFails == [][UnknownProductRefused]_vars

\* a createOrder naming product 3, which does not exist, beside product 1, whose
\* stock covers the quantity asked, has been refused
UnknownBesideKnownRefused ==
    \E self \in Procs :
        /\ PostOrdersDone(self)
        /\ req[self].items = <<Item(3, MaxQty - 1), Item(1, MaxQty)>>
        /\ 3 \notin exists /\ stock[1] >= MaxQty
        /\ resp[self] = Response(400, ErrProductsNotFound, 0)

\* C10: a cancel that read the status pending or confirmed ends with status
\* 200; it has raised the stock of each product that exists by the quantities
\* of the order's items for it and no other stock, and its save sets the status
\* cancelled.
CancelReleased ==
    \A self \in Procs :
        (CancelDone(self) /\ loc[self].readStatus \in {"pending", "confirmed"})
        => /\ resp[self] = Response(200, "", req[self].id)
           /\ \A p \in exists :
                 delta[self][p] = QuantityOf(orders[req[self].id].items, p)
           /\ \A p \in ProductIds :
                 QuantityOf(orders[req[self].id].items, p) = 0 => delta[self][p] = 0

CancelSaveSetsCancelled ==
    \A self \in Procs :
        (/\ pc[self] = "saveDoc" /\ pc'[self] = "done"
         /\ \/ req[self].op = OpDeleteOrder
            \/ req[self].op = OpPutOrder /\ req[self].status = "cancelled"
         /\ loc[self].readStatus \in {"pending", "confirmed"})
        => orders'[req[self].id].status = "cancelled"

CancelReleasesStock == []CancelReleased /\ [][CancelSaveSetsCancelled]_vars

\* a confirmed order holding 2 units of product 2 was cancelled: stock 2 was
\* raised by 2 and the order is cancelled
ConfirmedOrderCancelled ==
    \E self \in Procs :
        /\ CancelDone(self) /\ loc[self].readStatus = "confirmed"
        /\ resp[self].status = 200
        /\ orders[req[self].id].status = "cancelled"
        /\ orders[req[self].id].items = <<[product |-> 2, quantity |-> 2, priceAtPurchase |-> InitPrice[2]]>>
        /\ delta[self] = [p \in ProductIds |-> IF p = 2 THEN 2 ELSE 0]

\* a createOrder call that created an order and a cancel of that order that
\* ended with status 200: a reduceStock and a restoreStock over the same items
ReservedThenReleased(a, b) ==
    /\ PostOrdersDone(a) /\ resp[a].status = 201
    /\ CancelDone(b) /\ resp[b].status = 200
    /\ req[b].id = resp[a].order_id

\* C11: a reduceStock that succeeded and the restoreStock of the same items
\* leave, between them, the stock of every product that exists as it was; when
\* they are all that ran, every stock is the initial stock.
ReserveReleaseRoundTrip ==
    \A a, b \in Procs :
        ReservedThenReleased(a, b) =>
            /\ \A p \in exists : delta[a][p] + delta[b][p] = 0
            /\ nreq = 2 => /\ exists = InitProducts
                           /\ \A p \in ProductIds : stock[p] = InitStock[p]

\* an order of 3 units of product 1 and 2 units of product 2 was created and
\* cancelled, and nothing else ran
TwoItemRoundTrip ==
    \E a, b \in Procs :
        /\ ReservedThenReleased(a, b) /\ nreq = 2
        /\ req[a].items = <<Item(1, MaxQty), Item(2, MaxQty - 1)>>
        /\ delta[a] = [p \in ProductIds |-> IF p = 1 THEN 0 - MaxQty
                                            ELSE IF p = 2 THEN 1 - MaxQty ELSE 0]

\* C12: a createOrder call that ends with status 201 has added an order whose
\* status is confirmed and whose items are the (product, quantity) pairs of the
\* request, in the order of the request, each with the price the product had
\* when calculateTotalAndCheckStock read it; the call has lowered the stock of
\* each product by the quantities asked for it.
CreatedAsRequested ==
    \A self \in Procs :
        /\ (pc[self] = "idle" /\ pc'[self] = "reduceStock") =>
              /\ DOMAIN loc'[self].enriched = DOMAIN req'[self].items
              /\ \A i \in DOMAIN req'[self].items :
                    loc'[self].enriched[i] =
                        [product |-> req'[self].items[i].productId,
                         quantity |-> req'[self].items[i].quantity,
                         priceAtPurchase |-> price[req'[self].items[i].productId]]
        /\ (pc[self] \in {"reduceStock", "saveOrder"}) =>
              (loc'[self].enriched = loc[self].enriched /\ req'[self] = req[self])
        /\ (pc[self] = "saveOrder" /\ resp'[self].status = 201) =>
              /\ Len(orders') = Len(orders) + 1
              /\ resp'[self].order_id = Len(orders')
              /\ LET new == orders'[Len(orders')] IN
                 /\ new.status = "confirmed"
                 /\ new.items = loc[self].enriched
                 /\ \A p \in ProductIds : delta'[self][p] = 0 - QuantityOf(loc[self].enriched, p)

ConfirmedOrderAsRequested == [][CreatedAsRequested]_vars

\* an order of 3 units of product 1 and 2 units of product 2 was created at the
\* initial prices and has taken the stocks from 5 and 2 to 2 and 0
OrderAtInitialPrices ==
    \E self \in Procs :
        /\ PostOrdersDone(self) /\ resp[self].status = 201
        /\ orders[resp[self].order_id] =
              [customerId |-> "42",
               items |-> <<[product |-> 1, quantity |-> 3, priceAtPurchase |-> 10],
                           [product |-> 2, quantity |-> 2, priceAtPurchase |-> 3]>>,
               totalAmount |-> 36,
               shippingAddress |-> "addr1",
               status |-> "confirmed"]
        /\ stock = <<2, 0, 0>>

\* C13: in every state the totalAmount of every order is the sum, over its
\* items, of priceAtPurchase x quantity, and no step changes the items, their
\* priceAtPurchase or the totalAmount of an order that exists.
TotalIsSumOfItems ==
    \A o \in DOMAIN orders :
        orders[o].totalAmount =
            SumOver([i \in DOMAIN orders[o].items |->
                        orders[o].items[i].priceAtPurchase * orders[o].items[i].quantity],
                    DOMAIN orders[o].items)

ItemsAndTotalKept ==
    \A o \in DOMAIN orders :
        /\ o \in DOMAIN orders'
        /\ orders'[o].items = orders[o].items
        /\ orders'[o].totalAmount = orders[o].totalAmount

TotalMatchesItems == []TotalIsSumOfItems /\ [][ItemsAndTotalKept]_vars

\* the order of 3 units at 10 and 2 units at 3 has the total 36 after its
\* address was changed and it was cancelled
TotalKeptThroughUpdates ==
    /\ Len(orders) = 1
    /\ Len(orders[1].items) = 2
    /\ orders[1].totalAmount = 36
    /\ orders[1].shippingAddress = "addr2"
    /\ orders[1].status = "cancelled"

\* C14: calculateTotalAndCheckStock, run by a createOrder call on a body with a
\* customer and at least one item, fails with a not-found message exactly when
\* some item names a product that does not exist; otherwise it fails with the
\* insufficient-stock message exactly when some item asks for more than the
\* stock of its product; otherwise, also when a product is named twice, it
\* returns one enriched entry per item and the sum of price x quantity.
ValidatedAsSpecified ==
    \A self \in Procs :
        (/\ pc[self] = "idle" /\ pc'[self] # "idle"
         /\ req'[self].op = OpPostOrders
         /\ req'[self].customer_id # ""
         /\ Len(req'[self].items) > 0)
        => LET items == req'[self].items
               unknown == \E i \in DOMAIN items : items[i].productId \notin exists
               short == \E i \in DOMAIN items : items[i].quantity > stock[items[i].productId]
               failed == pc'[self] = "done"
           IN /\ (failed /\ resp'[self].error \in {ErrProductsNotFound, ErrProductNotFound})
                    <=> unknown
              /\ ~unknown => ((failed /\ resp'[self].error = ErrInsufficient) <=> short)
              /\ (~unknown /\ ~short) =>
                    /\ pc'[self] = "reduceStock"
                    /\ DOMAIN loc'[self].enriched = DOMAIN items
                    /\ loc'[self].total =
                          SumOver([i \in DOMAIN items |->
                                      price[items[i].productId] * items[i].quantity],
                                  DOMAIN items)

ValidationAsSpecified == [][ValidatedAsSpecified]_vars

\* C15: a cancel that read the status pending or confirmed ends with status 200
\* and its save sets the status cancelled, whether or not the products of the
\* order's items exist: an update of restoreStock for a product that does not
\* exist changes nothing and fails nothing, an update for a product that exists
\* raises its stock by the item's quantity.
CancelEndsWithMissingProduct ==
    \A self \in Procs :
        (CancelDone(self) /\ loc[self].readStatus \in {"pending", "confirmed"})
        => /\ resp[self] = Response(200, "", req[self].id)
           /\ \A p \in ProductIds :
                 delta[self][p] =
                     SumOver([i \in DOMAIN loc[self].enriched |->
                                 IF loc[self].enriched[i].product = p
                                    /\ loc[self].res[i].matchedCount = 1
                                 THEN loc[self].enriched[i].quantity ELSE 0],
                             DOMAIN loc[self].enriched)

MissingProductSkipped ==
    \A self \in Procs :
        /\ \A i \in loc[self].pending :
              (pc[self] = "restoreStock" /\ loc'[self].pending = loc[self].pending \ {i})
              => LET it == loc[self].enriched[i] IN
                 /\ pc'[self] \in {"restoreStock", "saveDoc"}
                 /\ exists' = exists
                 /\ IF it.product \in exists
                    THEN /\ stock' = [stock EXCEPT ![it.product] = @ + it.quantity]
                         /\ loc'[self].res[i].matchedCount = 1
                    ELSE /\ stock' = stock
                         /\ loc'[self].res[i].matchedCount = 0
        /\ (/\ pc[self] = "saveDoc"
            /\ pc'[self] # "saveDoc"
            /\ loc[self].pending = {} /\ loc[self].res # <<>>)
           => /\ resp'[self].status = 200
              /\ orders'[req[self].id].status = "cancelled"

CancelSkipsMissingProduct == []CancelEndsWithMissingProduct /\ [][MissingProductSkipped]_vars

\* a confirmed order of two items was cancelled while the seed route deleted
\* the products: one update of restoreStock found its product and raised its
\* stock, the other found none, and the cancel ended with status 200
CancelledAcrossDeleteMany ==
    \E self \in Procs :
        /\ CancelDone(self) /\ loc[self].readStatus = "confirmed"
        /\ resp[self].status = 200
        /\ orders[req[self].id].status = "cancelled"
        /\ \E i, j \in DOMAIN loc[self].res :
              /\ loc[self].res[i].matchedCount = 1
              /\ delta[self][loc[self].enriched[i].product] = loc[self].enriched[i].quantity
              /\ loc[self].res[j].matchedCount = 0
              /\ delta[self][loc[self].enriched[j].product] = 0

\* a PUT that takes the shipping address branch: a shipping_address and a status
\* that is not cancelled
AddressUpdate(r) == r.op = OpPutOrder /\ r.shipping_address # "" /\ r.status # "cancelled"

\* C16: a PUT with a shipping_address for an order whose status is shipped,
\* out_for_delivery or delivered ends at once with status 400 and changes no
\* order; for an order it read as pending or confirmed its save sets the
\* address of the request and changes no status; no step of it changes a stock.
AddressUpdated ==
    \A self \in Procs :
        /\ (/\ pc[self] = "idle" /\ pc'[self] # "idle"
            /\ AddressUpdate(req'[self])
            /\ req'[self].id \in DOMAIN orders)
           => /\ stock' = stock /\ orders' = orders
              /\ IF orders[req'[self].id].status \in {"shipped", "out_for_delivery", "delivered"}
                 THEN /\ pc'[self] = "done"
                      /\ resp'[self] = Response(400, ErrAddress, 0)
                 ELSE /\ pc'[self] = "saveDoc"
                      /\ loc'[self].readStatus = orders[req'[self].id].status
        /\ (/\ pc[self] = "saveDoc" /\ pc'[self] # "saveDoc"
            /\ AddressUpdate(req[self])
            /\ loc[self].readStatus \in {"pending", "confirmed"})
           => /\ resp'[self] = Response(200, "", req[self].id)
              /\ orders'[req[self].id].shippingAddress = req[self].shipping_address
              /\ orders'[req[self].id].status = orders[req[self].id].status
              /\ \A o \in DOMAIN orders : o # req[self].id => orders'[o] = orders[o]
              /\ stock' = stock

AddressUpdateGuarded == [][AddressUpdated]_vars

\* a PUT with a new address was refused for an order that had been shipped: the
\* order has the address it was created with
AddressChangeRefused ==
    \E self \in Procs :
        /\ pc[self] = "done" /\ AddressUpdate(req[self])
        /\ req[self].shipping_address = "addr2"
        /\ resp[self] = Response(400, ErrAddress, 0)
        /\ orders[req[self].id].status = "shipped"
        /\ orders[req[self].id].shippingAddress = "addr1"

\* no handler is between its first and its last database operation
Quiescent == \A self \in Procs : pc[self] \in {"idle", "done"}

\* the Product documents are those of the initial state
ProductsAsInitially == exists = InitProducts /\ gone = {} /\ samples = 0

\* units of product p in the items of the orders that are not cancelled
HeldByOrders(p) ==
    SumOver([o \in DOMAIN orders |->
                IF orders[o].status = "cancelled" THEN 0 ELSE QuantityOf(orders[o].items, p)],
            DOMAIN orders)

\* C17: when no handler is at work and no product was created or deleted, the
\* stock of every product plus the units of it in the orders that are not
\* cancelled is its initial stock.
StockConserved ==
    (Quiescent /\ ProductsAsInitially) =>
        \A p \in InitProducts : stock[p] + HeldByOrders(p) = InitStock[p]

\* two cancels of the same order that both read it as pending or confirmed
BothCancelled(a, b) ==
    /\ a # b
    /\ CancelDone(a) /\ CancelDone(b)
    /\ req[a].id = req[b].id
    /\ loc[a].readStatus \in {"pending", "confirmed"}
    /\ loc[b].readStatus \in {"pending", "confirmed"}

\* C18: two cancels of one order that overlap (both read the order before
\* either saved) have, when both have ended, between them raised the stock of
\* each product by the quantities of the order's items once.
ReleasedOnceByTwoCancels ==
    \A a, b \in Procs :
        BothCancelled(a, b) =>
            \A p \in exists :
                delta[a][p] + delta[b][p] = QuantityOf(orders[req[a].id].items, p)

\* a PUT that takes the generic status branch with status shipped
ShipUpdate(r) == r.op = OpPutOrder /\ r.status = "shipped" /\ r.shipping_address = ""

\* the three requests were the creation of order 1, a cancel of it and a PUT of
\* status shipped for it, the last two found the order and have ended
CancelAndShipEnded(c, s) ==
    /\ nreq = 3 /\ Len(orders) = 1
    /\ CancelDone(c) /\ req[c].id = 1 /\ resp[c].status # 404
    /\ pc[s] = "done" /\ ShipUpdate(req[s]) /\ req[s].id = 1 /\ resp[s].status # 404

\* C19: when a cancel and a PUT of status shipped for one confirmed order have
\* both ended, either the cancel was refused with status 400 and changed no
\* stock, or the order is cancelled and the cancel has released its quantities;
\* and no save of a cancel sets cancelled an order whose status is shipped.
CancelOrShipOutcome ==
    \A c, s \in Procs :
        CancelAndShipEnded(c, s) =>
            \/ /\ resp[c].status = 400
               /\ delta[c] = ZeroDelta
            \/ /\ resp[c].status = 200
               /\ orders[1].status = "cancelled"
               /\ \A p \in exists : delta[c][p] = QuantityOf(orders[1].items, p)

ShippedNotCancelledBySave ==
    \A c \in Procs :
        (/\ pc[c] = "saveDoc" /\ pc'[c] = "done"
         /\ \/ req[c].op = OpDeleteOrder
            \/ req[c].op = OpPutOrder /\ req[c].status = "cancelled"
         /\ orders[req[c].id].status = "shipped")
        => orders'[req[c].id].status # "cancelled"

CancelAgainstShipSerialised == []CancelOrShipOutcome /\ [][ShippedNotCancelledBySave]_vars

\* C20: a createOrder call never has any stock above what it was before the
\* call, whatever the quantities of its items, and a call that ended without
\* creating an order has changed no stock.
CreateOrderOnlyLowersStock ==
    \A self \in Procs :
        req[self].op = OpPostOrders =>
            /\ \A p \in ProductIds : delta[self][p] <= 0
            /\ (pc[self] = "done" /\ resp[self].status # 201) => delta[self] = ZeroDelta

====
